---- MODULE Spec2Model ----
(***************************************************************************)
(* Tonban API (src/tonban_api.py): four GET routes over a read-only SQLite *)
(* dataset.  Text values (codes, names, titles, query parameters) are      *)
(* sequences of one-character strings, so that strip(), int(), substr()    *)
(* and LIKE are computed character by character as the code and SQLite     *)
(* compute them.  Column names are romanised: tonban = 統番, hinmei = 品名, *)
(* gou = 号番, kou = 項番, rui = 類番, bu = 部番, xTitle = xタイトル,        *)
(* kanzeiritsu = 関税率_基本 (standing for the import-only rate columns).   *)
(* Columns that are only projected (部注, 類注, 単位1, 単位2, 他法令) are     *)
(* carried by no condition of the code and are left out of the rows.       *)
(***************************************************************************)
EXTENDS Integers, Sequences, FiniteSets, TLC

VARIABLES
    dbFile,   \* DB_FILE on disk: "absent", "ok", or "malformed" (exists, queries fail)
    tables,   \* the six tables of the dataset (read-only)
    req,      \* req[r]: the GET request r (route and query-string arguments)
    pc,       \* pc[r]: position of the handler serving request r
    bind,     \* bind[r]: the SQL statement and the parameters bound to it
    rows,     \* rows[r]: what _query returned to the handler
    conns,    \* the open sqlite3 connections, each named by the request that opened it
    resp,     \* resp[r]: the HTTP response (status and JSON body)
    queried,  \* queried[r]: number of times request r invoked _query
    opened    \* opened[r]: number of connections request r opened

vars == <<dbFile, tables, req, pc, bind, rows, conns, resp, queried, opened>>

-----------------------------------------------------------------------------
(* Characters and text                                                     *)

\* The characters of the model, in ascending code-point order (BINARY collation).
Chars ==
    <<" ", "%", "-", ".", "0", "1", "2", "5", "9", "A", "B", "_", "a", "b",
      "c", "d", "g", "k", "r", "t", "u", "z">>

CodePoint(c) == CHOOSE i \in 1..Len(Chars) : Chars[i] = c

\* str.strip() with no argument removes leading and trailing whitespace.
IsSpace(c) == c = " "

RECURSIVE LStrip(_)
LStrip(s) ==
    IF s # <<>> /\ IsSpace(Head(s)) THEN LStrip(Tail(s)) ELSE s

RECURSIVE RStrip(_)
RStrip(s) ==
    IF s # <<>> /\ IsSpace(s[Len(s)]) THEN RStrip(SubSeq(s, 1, Len(s) - 1)) ELSE s

Strip(s) == RStrip(LStrip(s))

\* SQLite substr(X, 1, n): the first n characters of X, all of X when it is shorter.
Substr(s, n) == SubSeq(s, 1, IF Len(s) < n THEN Len(s) ELSE n)

\* Comparison of two texts under the BINARY collation (ORDER BY te.統番).
RECURSIVE TextLess(_, _)
TextLess(s, t) ==
    IF t = <<>> THEN FALSE
    ELSE IF s = <<>> THEN TRUE
    ELSE IF Head(s) # Head(t) THEN CodePoint(Head(s)) < CodePoint(Head(t))
    ELSE TextLess(Tail(s), Tail(t))

TextLeq(s, t) == s = t \/ TextLess(s, t)

\* SQLite's LIKE folds the case of ASCII letters (case_sensitive_like is off).
Fold(c) == IF c = "A" THEN "a" ELSE IF c = "B" THEN "b" ELSE c

\* X LIKE pat, no ESCAPE clause: % matches any run of characters, _ any one character.
RECURSIVE Like(_, _)
Like(pat, s) ==
    IF pat = <<>> THEN s = <<>>
    ELSE IF Head(pat) = "%"
         THEN Like(Tail(pat), s) \/ (s # <<>> /\ Like(pat, Tail(s)))
    ELSE IF Head(pat) = "_"
         THEN s # <<>> /\ Like(Tail(pat), Tail(s))
    ELSE s # <<>> /\ Fold(Head(pat)) = Fold(Head(s)) /\ Like(Tail(pat), Tail(s))

\* int(str): optional surrounding whitespace, optional sign, decimal digits.
Digits == <<"0", "1", "2", "5", "9">>
DigitValue(c) == IF c = "0" THEN 0 ELSE IF c = "1" THEN 1 ELSE IF c = "2" THEN 2
                 ELSE IF c = "5" THEN 5 ELSE 9
IsDigit(c) == \E i \in 1..Len(Digits) : Digits[i] = c

RECURSIVE DecimalValue(_, _)
DecimalValue(s, acc) ==
    IF s = <<>> THEN acc ELSE DecimalValue(Tail(s), 10 * acc + DigitValue(Head(s)))

\* [ok |-> FALSE] stands for ValueError.
ParseInt(str) ==
    LET s    == Strip(str)
        neg  == s # <<>> /\ Head(s) = "-"
        body == IF neg THEN Tail(s) ELSE s
    IN  IF body # <<>> /\ \A i \in 1..Len(body) : IsDigit(body[i])
        THEN [ok |-> TRUE,
              val |-> IF neg THEN 0 - DecimalValue(body, 0) ELSE DecimalValue(body, 0)]
        ELSE [ok |-> FALSE, val |-> 0]

-----------------------------------------------------------------------------
(* Program constants                                                       *)

PrefixLen == 7
MinKeywordLen == 2
DefaultLimit == 100
MinLimit == 1
MaxLimit == 1000

\* Number of requests in flight in the concurrent specification.
MaxRequests == 2

-----------------------------------------------------------------------------
(* The dataset: 統番.db                                                    *)

P21 == <<"0", "1", "0", "1", ".", "2", "1">>
P29 == <<"0", "1", "0", "1", ".", "2", "9">>
CodeA == P21 \o <<"-", "0">>          \* "0101.21-0"
CodeB == P29 \o <<" ">>               \* "0101.29 ", stored with a trailing blank
CodeNone == <<"9", "9", "9", "9", ".", "9", "9", "-", "9">>

\* Candidate rows of 輸出統番: two rows share the leaf code CodeA.
ExportRows ==
    { [tonban |-> CodeA, hinmei |-> <<"a", "b">>],
      [tonban |-> CodeA, hinmei |-> <<"a", "b", "c">>],
      [tonban |-> CodeB, hinmei |-> <<"A", "B">>] }

\* Candidate rows of 輸入統番.
ImportRows ==
    { [tonban |-> CodeA, hinmei |-> <<"a", "b">>, kanzeiritsu |-> <<"5", "%">>],
      [tonban |-> CodeB, hinmei |-> <<"c", "d">>, kanzeiritsu |-> <<>>] }

\* Candidate rows of 号番: two rows carry the key P21.
GouRows ==
    { [gou |-> P21, kou |-> "0101", gouTitle |-> <<"g", "t">>],
      [gou |-> P21, kou |-> "0101", gouTitle |-> <<"g", "u">>],
      [gou |-> P29, kou |-> "0101", gouTitle |-> <<"g", "t">>] }

KouRow == [kou |-> "0101", rui |-> "01", kouTitle |-> <<"k", "t">>]
RuiRow == [rui |-> "01", bu |-> "1", ruiTitle |-> <<"r", "t">>]
BuRow == [bu |-> "1", buTitle |-> <<"b", "t">>]

\* The tables above 号番: whole, or with one level's row missing.
UpperTables ==
    { [kou |-> {KouRow}, rui |-> {RuiRow}, bu |-> {BuRow}],
      [kou |-> {},       rui |-> {RuiRow}, bu |-> {BuRow}],
      [kou |-> {KouRow}, rui |-> {},       bu |-> {BuRow}],
      [kou |-> {KouRow}, rui |-> {RuiRow}, bu |-> {}] }

MakeTables(ex, im, g, up) ==
    [yushutsu |-> ex, yunyu |-> im, gou |-> g,
     kou |-> up.kou, rui |-> up.rui, bu |-> up.bu]

AllTables ==
    { MakeTables(ex, im, g, up) :
        ex \in SUBSET ExportRows, im \in SUBSET ImportRows,
        g \in SUBSET GouRows, up \in UpperTables }

EmptyTables == MakeTables({}, {}, {}, [kou |-> {}, rui |-> {}, bu |-> {}])

FullTables ==
    MakeTables(ExportRows, ImportRows, GouRows,
               [kou |-> {KouRow}, rui |-> {RuiRow}, bu |-> {BuRow}])

\* A dataset: no file; a file SQLite reads; a file on which executing a statement fails.
Datasets ==
    { [file |-> "ok", tables |-> t] : t \in AllTables }
    \cup { [file |-> "absent", tables |-> EmptyTables],
           [file |-> "malformed", tables |-> FullTables] }

-----------------------------------------------------------------------------
(* SQL templates                                                           *)

\* SELECT_COMMON: the columns projected from one joined row.
SELECT_COMMON(te, g, k, r, b) ==
    [bu |-> b.bu, rui |-> r.rui, kou |-> k.kou, gou |-> g.gou, tonban |-> te.tonban,
     buTitle |-> b.buTitle, ruiTitle |-> r.ruiTitle, kouTitle |-> k.kouTitle,
     gouTitle |-> g.gouTitle, hinmei |-> te.hinmei]

\* SELECT_COMMON + SELECT_IMPORT_EXTRA.
SELECT_IMPORT_EXTRA(te, g, k, r, b) ==
    [bu |-> b.bu, rui |-> r.rui, kou |-> k.kou, gou |-> g.gou, tonban |-> te.tonban,
     buTitle |-> b.buTitle, ruiTitle |-> r.ruiTitle, kouTitle |-> k.kouTitle,
     gouTitle |-> g.gouTitle, hinmei |-> te.hinmei, kanzeiritsu |-> te.kanzeiritsu]

\* Mutant: the join takes one character too many of the leaf code.
JoinGouLongPrefix(te, g) == g.gou = Substr(te.tonban, PrefixLen + 1)

\* JOIN 号番 ON g.号番 = substr(te.統番,1,7)
JoinGou(te, g) == g.gou = Substr(te.tonban, PrefixLen)

\* The joined tuples: FROM te JOIN g JOIN k JOIN r JOIN b (inner joins).
Joined(entries) ==
    { j \in [te : entries, g : tables.gou, k : tables.kou, r : tables.rui, b : tables.bu] :
        /\ JoinGou(j.te, j.g)
        /\ j.k.kou = j.g.kou
        /\ j.r.rui = j.k.rui
        /\ j.b.bu = j.r.bu }

ExportJoin == { SELECT_COMMON(j.te, j.g, j.k, j.r, j.b) : j \in Joined(tables.yushutsu) }
ImportJoin == { SELECT_IMPORT_EXTRA(j.te, j.g, j.k, j.r, j.b) : j \in Joined(tables.yunyu) }

\* WHERE te.統番 = :code
WhereCode(row, params) == row.tonban = params.code

\* WHERE te.品名 LIKE :kw OR b.部タイトル LIKE :kw OR ... OR g.号タイトル LIKE :kw
WhereName(row, params) ==
    \/ Like(params.kw, row.hinmei)
    \/ Like(params.kw, row.buTitle)
    \/ Like(params.kw, row.ruiTitle)
    \/ Like(params.kw, row.kouTitle)
    \/ Like(params.kw, row.gouTitle)

\* A statement without ORDER BY returns its rows in an order SQL leaves open.
RECURSIVE AnyOrder(_)
AnyOrder(S) ==
    IF S = {} THEN {<<>>}
    ELSE UNION { { <<x>> \o s : s \in AnyOrder(S \ {x}) } : x \in S }

\* ORDER BY te.統番: ascending by leaf code; rows of equal code in an order SQL leaves open.
RECURSIVE OrderByTonban(_)
OrderByTonban(S) ==
    IF S = {} THEN {<<>>}
    ELSE UNION { { <<x>> \o s : s \in OrderByTonban(S \ {x}) } :
                 x \in { y \in S : \A z \in S : TextLeq(y.tonban, z.tonban) } }

\* LIMIT n: the first n rows; a negative n is no limit in SQLite.
Limit(s, n) == IF n < 0 \/ n >= Len(s) THEN s ELSE SubSeq(s, 1, n)

\* The possible results of cur.fetchall() for each statement.
SQL_EXPORT_CODE(params) == AnyOrder({ row \in ExportJoin : WhereCode(row, params) })

SQL_IMPORT_CODE(params) == AnyOrder({ row \in ImportJoin : WhereCode(row, params) })

SQL_EXPORT_NAME(params) ==
    { Limit(s, params.limit) :
        s \in OrderByTonban({ row \in ExportJoin : WhereName(row, params) }) }

SQL_IMPORT_NAME(params) ==
    { Limit(s, params.limit) :
        s \in OrderByTonban({ row \in ImportJoin : WhereName(row, params) }) }

Execute(b) ==
    IF b.sql = "SQL_EXPORT_CODE" THEN SQL_EXPORT_CODE(b.params)
    ELSE IF b.sql = "SQL_EXPORT_NAME" THEN SQL_EXPORT_NAME(b.params)
    ELSE IF b.sql = "SQL_IMPORT_CODE" THEN SQL_IMPORT_CODE(b.params)
    ELSE SQL_IMPORT_NAME(b.params)

-----------------------------------------------------------------------------
(* Requests                                                                *)

CodeRoutes == {"/tonban/export", "/tonban/import"}
NameRoutes == {"/tonban/export/search", "/tonban/import/search"}

\* request.args is a mapping from the parameters present in the query string.
NoArgs == [k \in {} |-> <<>>]

CodeArgs ==
    { <<>>, <<" ", " ">>, CodeA, <<" ">> \o CodeA \o <<" ">>, CodeB, CodeNone }

KeywordArgs ==
    { <<"a">>, <<" ", "a", " ">>, <<"a", "b">>, <<"g", "t">>, <<"_", "_">>, <<"z", "z">> }

LimitArgs ==
    { <<>>, <<"a", "b", "c">>, <<"-", "1">>, <<"0">>, <<"1">>, <<" ", "2">>,
      <<"1", "0", "0", "0">>, <<"5", "0", "0", "0">> }

CodeRequests ==
    { [route |-> rt, args |-> a] :
        rt \in CodeRoutes, a \in {NoArgs} \cup { ("code" :> c) : c \in CodeArgs } }

NameRequests ==
    { [route |-> rt, args |-> a @@ b] :
        rt \in NameRoutes,
        a \in {NoArgs} \cup { ("q" :> q) : q \in KeywordArgs },
        b \in {NoArgs} \cup { ("limit" :> l) : l \in LimitArgs } }

Requests == CodeRequests \cup NameRequests

\* request.args.get(key, default)
ArgsGet(args, key, default) == IF key \in DOMAIN args THEN args[key] ELSE default

-----------------------------------------------------------------------------
(* Response wrappers                                                       *)

NoResponse == [status |-> 0, body |-> [pending |-> TRUE]]

\* jsonify({"resultCd": True, "data": data}), status 200 by default.
_success(data) == [status |-> 200, body |-> [resultCd |-> TRUE, data |-> data]]

\* jsonify({"resultCd": False, "message": msg}), status
_error(msg, status) == [status |-> status, body |-> [resultCd |-> FALSE, message |-> msg]]

\* Flask's answer to an exception no handler catches: 500 with an HTML body.
InternalServerError == [status |-> 500, body |-> [html |-> "Internal Server Error"]]

-----------------------------------------------------------------------------
(* Validation and normalisation, as the handlers compute them              *)

\* if not code
CodeMissing(code) == code = <<>>

\* Mutant: only the empty keyword is rejected.
KeywordTooShortOffByOne(q) == Len(q) < MinKeywordLen - 1

\* if len(q) < 2
KeywordTooShort(q) == Len(q) < MinKeywordLen

\* int(request.args.get("limit", 100))
LimitOf(args) ==
    IF "limit" \in DOMAIN args THEN ParseInt(args["limit"])
    ELSE [ok |-> TRUE, val |-> DefaultLimit]

\* Mutant: min(limit, 1000), the lower clamp forgotten.
ClampLimitUpperOnly(n) == IF n < MaxLimit THEN n ELSE MaxLimit

\* max(1, min(limit, 1000))
ClampLimit(n) ==
    LET m == IF n < MaxLimit THEN n ELSE MaxLimit
    IN  IF m > MinLimit THEN m ELSE MinLimit

\* f"%{q}%"
Wrap(q) == <<"%">> \o q \o <<"%">>

\* Mutant: the lookup answers like a search, success whatever the rows.
CodeResultLikeSearch(code, data) == _success(data)

\* if not data: 404, else success
CodeResult(code, data) ==
    IF data = <<>> THEN _error(<<"tonban ", code, " not found">>, 404)
    ELSE _success(data)

-----------------------------------------------------------------------------
(* _query, in the steps at which another request may run                   *)

NoBind == [sql |-> "none", params |-> NoArgs]
NoRows == [returned |-> FALSE, data |-> <<>>]

\* The connection request r holds: the one it opened last.
ConnOf(r) == <<r, opened[r]>>

\* Mutant: _query without the DB_FILE.exists() guard.
_query_connect_unguarded(r) ==
    /\ pc[r] = "query"
    /\ queried' = [queried EXCEPT ![r] = @ + 1]
    /\ opened' = [opened EXCEPT ![r] = @ + 1]
    /\ conns' = conns \cup {<<r, opened[r] + 1>>}
    /\ pc' = [pc EXCEPT ![r] = "execute"]
    /\ UNCHANGED <<dbFile, tables, req, bind, rows, resp>>

\* Lines 180-184: the handler calls _query; without the file it returns [] at once,
\* otherwise it opens a connection of its own.
_query_connect(r) ==
    /\ pc[r] = "query"
    /\ queried' = [queried EXCEPT ![r] = @ + 1]
    /\ IF dbFile = "absent"
       THEN /\ rows' = [rows EXCEPT ![r] = [returned |-> TRUE, data |-> <<>>]]
            /\ pc' = [pc EXCEPT ![r] = "return"]
            /\ UNCHANGED <<conns, opened>>
       ELSE /\ opened' = [opened EXCEPT ![r] = @ + 1]
            /\ conns' = conns \cup {<<r, opened[r] + 1>>}
            /\ pc' = [pc EXCEPT ![r] = "execute"]
            /\ UNCHANGED rows
    /\ UNCHANGED <<dbFile, tables, req, bind, resp>>

\* Lines 185-186: conn.execute(sql, params) and cur.fetchall(); on a malformed dataset
\* execute raises and the exception leaves _query and the handler.
_query_execute(r) ==
    /\ pc[r] = "execute"
    /\ IF dbFile = "malformed"
       THEN /\ pc' = [pc EXCEPT ![r] = "raised"]
            /\ UNCHANGED rows
       ELSE /\ \E result \in Execute(bind[r]) :
                  rows' = [rows EXCEPT ![r] = [returned |-> FALSE, data |-> result]]
            /\ pc' = [pc EXCEPT ![r] = "close"]
    /\ UNCHANGED <<dbFile, tables, req, bind, conns, resp, queried, opened>>

\* Lines 187-188: conn.close() and the return of the rows as dicts.
_query_close(r) ==
    /\ pc[r] = "close"
    /\ conns' = conns \ {ConnOf(r)}
    /\ rows' = [rows EXCEPT ![r].returned = TRUE]
    /\ pc' = [pc EXCEPT ![r] = "return"]
    /\ UNCHANGED <<dbFile, tables, req, bind, resp, queried, opened>>

\* The exception of line 185 is caught nowhere in the module: the request ends with
\* the framework's 500, and no statement closes the connection.
unhandled(r) ==
    /\ pc[r] = "raised"
    /\ resp' = [resp EXCEPT ![r] = InternalServerError]
    /\ pc' = [pc EXCEPT ![r] = "done"]
    /\ UNCHANGED <<dbFile, tables, req, bind, rows, conns, queried, opened>>

-----------------------------------------------------------------------------
(* Route handlers                                                          *)

Reply(r, response) ==
    /\ resp' = [resp EXCEPT ![r] = response]
    /\ pc' = [pc EXCEPT ![r] = "done"]

Call(r, sql, params) ==
    /\ bind' = [bind EXCEPT ![r] = [sql |-> sql, params |-> params]]
    /\ pc' = [pc EXCEPT ![r] = "query"]

\* Mutant: the blank-code error is built but not returned, and the query runs.
by_code_begin_falls_through(r, sql) ==
    LET code == Strip(ArgsGet(req[r].args, "code", <<>>))
    IN  /\ pc[r] = "recv"
        /\ Call(r, sql, [code |-> code]) /\ UNCHANGED resp
        /\ UNCHANGED <<dbFile, tables, req, rows, conns, queried, opened>>

\* export_by_code / import_by_code up to the call of _query.
by_code_begin(r, sql) ==
    LET code == Strip(ArgsGet(req[r].args, "code", <<>>))
    IN  /\ pc[r] = "recv"
        /\ IF CodeMissing(code)
           THEN Reply(r, _error(<<"code required">>, 400)) /\ UNCHANGED bind
           ELSE Call(r, sql, [code |-> code]) /\ UNCHANGED resp
        /\ UNCHANGED <<dbFile, tables, req, rows, conns, queried, opened>>

\* export_by_code / import_by_code after _query returned.
by_code_end(r) ==
    /\ pc[r] = "return"
    /\ Reply(r, CodeResult(bind[r].params.code, rows[r].data))
    /\ UNCHANGED <<dbFile, tables, req, bind, rows, conns, queried, opened>>

\* export_by_name / import_by_name up to the call of _query.
by_name_begin(r, sql) ==
    LET q     == Strip(ArgsGet(req[r].args, "q", <<>>))
        limit == LimitOf(req[r].args)
    IN  /\ pc[r] = "recv"
        /\ IF KeywordTooShort(q)
           THEN Reply(r, _error(<<"q too short">>, 400)) /\ UNCHANGED bind
           ELSE IF ~limit.ok
           THEN Reply(r, _error(<<"limit not an integer">>, 400)) /\ UNCHANGED bind
           ELSE Call(r, sql, [kw |-> Wrap(q), limit |-> ClampLimit(limit.val)])
                /\ UNCHANGED resp
        /\ UNCHANGED <<dbFile, tables, req, rows, conns, queried, opened>>

\* export_by_name / import_by_name after _query returned.
by_name_end(r) ==
    /\ pc[r] = "return"
    /\ Reply(r, _success(rows[r].data))
    /\ UNCHANGED <<dbFile, tables, req, bind, rows, conns, queried, opened>>

export_by_code(r) ==
    /\ req[r].route = "/tonban/export"
    /\ (by_code_begin(r, "SQL_EXPORT_CODE") \/ by_code_end(r))

export_by_name(r) ==
    /\ req[r].route = "/tonban/export/search"
    /\ (by_name_begin(r, "SQL_EXPORT_NAME") \/ by_name_end(r))

import_by_code(r) ==
    /\ req[r].route = "/tonban/import"
    /\ (by_code_begin(r, "SQL_IMPORT_CODE") \/ by_code_end(r))

import_by_name(r) ==
    /\ req[r].route = "/tonban/import/search"
    /\ (by_name_begin(r, "SQL_IMPORT_NAME") \/ by_name_end(r))

-----------------------------------------------------------------------------
(* Specifications                                                          *)

InitRequests(ids, universe) ==
    /\ req \in [ids -> universe]
    /\ pc = [r \in ids |-> "recv"]
    /\ bind = [r \in ids |-> NoBind]
    /\ rows = [r \in ids |-> NoRows]
    /\ conns = {}
    /\ resp = [r \in ids |-> NoResponse]
    /\ queried = [r \in ids |-> 0]
    /\ opened = [r \in ids |-> 0]

\* One request, any dataset.
Init ==
    /\ \E d \in Datasets : dbFile = d.file /\ tables = d.tables
    /\ InitRequests({1}, Requests)

Next ==
    \/ \E r \in DOMAIN req : export_by_code(r)
    \/ \E r \in DOMAIN req : export_by_name(r)
    \/ \E r \in DOMAIN req : import_by_code(r)
    \/ \E r \in DOMAIN req : import_by_name(r)
    \/ \E r \in DOMAIN req : _query_connect(r)
    \/ \E r \in DOMAIN req : _query_execute(r)
    \/ \E r \in DOMAIN req : _query_close(r)
    \/ \E r \in DOMAIN req : unhandled(r)

Spec == Init /\ [][Next]_vars

\* Several requests in flight at once (the host runtime serves them concurrently),
\* over a dataset that is absent, malformed, or holds two export rows of one code;
\* the export search matches both of them and asks for one row.
ConcTables ==
    MakeTables({ e \in ExportRows : e.tonban = CodeA }, ImportRows,
               { g \in GouRows : g.gouTitle = <<"g", "t">> },
               [kou |-> {KouRow}, rui |-> {RuiRow}, bu |-> {BuRow}])

ConcDatasets ==
    { [file |-> "ok", tables |-> ConcTables],
      [file |-> "absent", tables |-> EmptyTables],
      [file |-> "malformed", tables |-> FullTables] }

ConcRequests ==
    { [route |-> "/tonban/export", args |-> ("code" :> CodeNone)],
      [route |-> "/tonban/import", args |-> NoArgs],
      [route |-> "/tonban/import", args |-> ("code" :> CodeB)],
      [route |-> "/tonban/export/search", args |-> ("q" :> <<"a", "b">>) @@ ("limit" :> <<"1">>)],
      [route |-> "/tonban/import/search", args |-> ("q" :> <<"c", "d">>)] }

InitConc ==
    /\ \E d \in ConcDatasets : dbFile = d.file /\ tables = d.tables
    /\ InitRequests(1..MaxRequests, ConcRequests)

SpecConc == InitConc /\ [][Next]_vars

-----------------------------------------------------------------------------
(* What the claims speak of, stated without the handlers' own operators    *)

Done(r) == pc[r] = "done"
Status(r) == resp[r].status
Body(r) == resp[r].body
IsCodeRequest(r) == req[r].route \in CodeRoutes
IsNameRequest(r) == req[r].route \in NameRoutes
Arg(r, key) == IF key \in DOMAIN req[r].args THEN req[r].args[key] ELSE <<>>

\* Length of a text once its surrounding blanks are dropped.
TrimmedLength(s) ==
    LET inked == { i \in 1..Len(s) : s[i] # " " }
    IN  IF inked = {} THEN 0
        ELSE (CHOOSE i \in inked : \A j \in inked : j <= i)
             - (CHOOSE i \in inked : \A j \in inked : i <= j) + 1

\* The integer each limit argument of the model denotes, if any.
LimitDenotes(l) ==
    IF l = <<"-", "1">> THEN [ok |-> TRUE, val |-> 0 - 1]
    ELSE IF l = <<"0">> THEN [ok |-> TRUE, val |-> 0]
    ELSE IF l = <<"1">> THEN [ok |-> TRUE, val |-> 1]
    ELSE IF l = <<" ", "2">> THEN [ok |-> TRUE, val |-> 2]
    ELSE IF l = <<"1", "0", "0", "0">> THEN [ok |-> TRUE, val |-> 1000]
    ELSE IF l = <<"5", "0", "0", "0">> THEN [ok |-> TRUE, val |-> 5000]
    ELSE [ok |-> FALSE, val |-> 0]

LimitGiven(r) == "limit" \in DOMAIN req[r].args
LimitIsInteger(r) == ~LimitGiven(r) \/ LimitDenotes(req[r].args["limit"]).ok

\* The limit the claim says is bound: 100 when absent, else n forced into 1..1000.
ExpectedLimit(r) ==
    IF ~LimitGiven(r) THEN 100
    ELSE LET n == LimitDenotes(req[r].args["limit"]).val
         IN  IF n <= 0 THEN 1 ELSE IF n > 1000 THEN 1000 ELSE n

ValidKeyword(r) == TrimmedLength(Arg(r, "q")) >= 2
ValidSearch(r) == IsNameRequest(r) /\ ValidKeyword(r) /\ LimitIsInteger(r)
NonBlankCode(r) == TrimmedLength(Arg(r, "code")) >= 1

ValidationFails(r) ==
    \/ IsCodeRequest(r) /\ ~NonBlankCode(r)
    \/ IsNameRequest(r) /\ ~(ValidKeyword(r) /\ LimitIsInteger(r))

IsSuccess(r) ==
    /\ Status(r) = 200
    /\ DOMAIN Body(r) = {"resultCd", "data"}
    /\ Body(r).resultCd = TRUE

IsFailure(r, statuses) ==
    /\ Status(r) \in statuses
    /\ DOMAIN Body(r) = {"resultCd", "message"}
    /\ Body(r).resultCd = FALSE

EntryTable(r) ==
    IF req[r].route \in {"/tonban/export", "/tonban/export/search"}
    THEN tables.yushutsu ELSE tables.yunyu

\* The subheading -> heading -> chapter -> part chains reached from a leaf code.
Chains(code) ==
    { c \in [g : tables.gou, k : tables.kou, r : tables.rui, b : tables.bu] :
        /\ Len(code) >= 7
        /\ c.g.gou = [i \in 1..7 |-> code[i]]
        /\ c.k.kou = c.g.kou
        /\ c.r.rui = c.k.rui
        /\ c.b.bu = c.r.bu }

\* Row `row` is entry `e` with the ancestry of chain `c`.
RowIs(row, e, c) ==
    /\ row.tonban = e.tonban /\ row.hinmei = e.hinmei
    /\ ("kanzeiritsu" \in DOMAIN e =>
            "kanzeiritsu" \in DOMAIN row /\ row.kanzeiritsu = e.kanzeiritsu)
    /\ row.gou = c.g.gou /\ row.gouTitle = c.g.gouTitle
    /\ row.kou = c.k.kou /\ row.kouTitle = c.k.kouTitle
    /\ row.rui = c.r.rui /\ row.ruiTitle = c.r.ruiTitle
    /\ row.bu = c.b.bu /\ row.buTitle = c.b.buTitle

\* data holds exactly one row per entry of `entries`, with an ancestry from `chains`.
ExactlyRowsOf(data, entries, chains) ==
    /\ Len(data) = Cardinality(entries)
    /\ \A e \in entries : \E i \in 1..Len(data) : \E c \in chains : RowIs(data[i], e, c)
    /\ \A i \in 1..Len(data) : \E e \in entries : \E c \in chains : RowIs(data[i], e, c)

EntriesOfCode(r) == { e \in EntryTable(r) : e.tonban = Arg(r, "code") }

Contains(text, kw) ==
    \E i \in 1..(Len(text) - Len(kw) + 1) : SubSeq(text, i, i + Len(kw) - 1) = kw

-----------------------------------------------------------------------------
(* Claims                                                                  *)

\* C1 as stated: for every code C present in the entry table (of a dataset SQLite
\* reads), the code route called with code=C answers 200 with exactly the entry rows
\* of leaf code C, each with the ancestry reached from C's 7-character prefix.
C1_PresentCodeReturnsItsRows ==
    \A r \in DOMAIN req :
        (Done(r) /\ IsCodeRequest(r) /\ EntriesOfCode(r) # {} /\ dbFile = "ok") =>
            /\ IsSuccess(r)
            /\ ExactlyRowsOf(Body(r).data, EntriesOfCode(r), Chains(Arg(r, "code")))

\* C1 amended: the same, for a code C without surrounding whitespace, in a dataset
\* on which the statement executes, when exactly one subheading -> heading ->
\* chapter -> part chain is reached from C's 7-character prefix.
C1_UniqueChainCodeReturnsItsRows ==
    \A r \in DOMAIN req :
        (/\ Done(r) /\ IsCodeRequest(r) /\ EntriesOfCode(r) # {}
         /\ dbFile = "ok"
         /\ TrimmedLength(Arg(r, "code")) = Len(Arg(r, "code"))
         /\ Cardinality(Chains(Arg(r, "code"))) = 1) =>
            /\ IsSuccess(r)
            /\ ExactlyRowsOf(Body(r).data, EntriesOfCode(r), Chains(Arg(r, "code")))

C1_Witness ==
    \E r \in DOMAIN req :
        /\ Done(r) /\ req[r].route = "/tonban/export" /\ dbFile = "ok"
        /\ Cardinality(EntriesOfCode(r)) = 2
        /\ Cardinality(Chains(Arg(r, "code"))) = 1
        /\ IsSuccess(r) /\ Len(Body(r).data) = 2

\* C2: a code lookup whose query yields zero rows (code absent from the dataset)
\* answers 404 with resultCd false, never 200; a valid search whose query yields
\* zero rows answers 200 with resultCd true and empty data, never 404.  (A code is
\* absent when no stored leaf code occurs in the argument, blanks included.)
C2_ZeroRows ==
    \A r \in DOMAIN req :
        Done(r) =>
            /\ (IsCodeRequest(r) /\ rows[r].returned /\ rows[r].data = <<>>) =>
                   IsFailure(r, {404})
            /\ (IsCodeRequest(r) /\ NonBlankCode(r) /\ dbFile # "malformed"
                   /\ ~\E e \in EntryTable(r) : Contains(Arg(r, "code"), e.tonban)) =>
                   IsFailure(r, {404})
            /\ (IsNameRequest(r) /\ rows[r].returned /\ rows[r].data = <<>>) =>
                   IsSuccess(r) /\ Body(r).data = <<>>

C2_Witness ==
    \E r \in DOMAIN req :
        /\ Done(r) /\ IsNameRequest(r) /\ dbFile = "ok" /\ EntryTable(r) # {}
        /\ rows[r].returned /\ rows[r].data = <<>>
        /\ IsSuccess(r)

\* C3 as stated: every response is (200, resultCd true, data, no message) or
\* (400 or 404, resultCd false, message, no data).
C3_Envelope ==
    \A r \in DOMAIN req :
        Done(r) => IsSuccess(r) \/ IsFailure(r, {400, 404})

\* C4: a keyword shorter than 2 characters after trimming (or absent) makes both
\* search routes answer 400 with resultCd false, whatever the dataset and the limit.
C4_ShortKeywordRejected ==
    \A r \in DOMAIN req :
        (IsNameRequest(r) /\ ~ValidKeyword(r)) =>
            /\ pc[r] \in {"recv", "done"}
            /\ Done(r) => IsFailure(r, {400})

C4_Witness ==
    \E r \in DOMAIN req :
        /\ Done(r) /\ IsNameRequest(r)
        /\ Arg(r, "q") = <<" ", "a", " ">>
        /\ LimitGiven(r) /\ ~LimitIsInteger(r)
        /\ dbFile = "absent"
        /\ IsFailure(r, {400})

\* C5: with a valid keyword the limit is clamped, never rejected for its range: the
\* bound limit is max(1, min(n, 1000)), 100 when absent; only a limit that is no
\* integer answers 400; data never holds more rows than the bound limit.
C5_LimitClamped ==
    \A r \in DOMAIN req :
        (IsNameRequest(r) /\ ValidKeyword(r) /\ pc[r] # "recv") =>
            IF LimitIsInteger(r)
            THEN /\ Status(r) # 400
                 /\ bind[r].sql \in {"SQL_EXPORT_NAME", "SQL_IMPORT_NAME"}
                 /\ bind[r].params.limit = ExpectedLimit(r)
                 /\ Len(rows[r].data) <= ExpectedLimit(r)
                 /\ Status(r) = 200 => Len(Body(r).data) <= ExpectedLimit(r)
            ELSE Done(r) /\ IsFailure(r, {400})

C5_Witness ==
    \E r \in DOMAIN req :
        /\ Done(r) /\ req[r].route = "/tonban/export/search"
        /\ Arg(r, "limit") = <<"0">>
        /\ IsSuccess(r) /\ Len(Body(r).data) = 1
        /\ Cardinality({ row \in ExportJoin : WhereName(row, bind[r].params) }) > 1

\* C6 as stated: the rows of a valid search are in ascending order of leaf code and
\* each holds the keyword as a literal substring of its item name or of one of its
\* four titles.
C6_SortedLiteralMatches ==
    \A r \in DOMAIN req :
        (Done(r) /\ ValidSearch(r) /\ Status(r) = 200) =>
            LET data == Body(r).data
                kw   == Strip(Arg(r, "q"))
            IN  /\ \A i \in 1..(Len(data) - 1) : TextLeq(data[i].tonban, data[i + 1].tonban)
                /\ \A i \in 1..Len(data) :
                       \/ Contains(data[i].hinmei, kw)
                       \/ Contains(data[i].buTitle, kw)
                       \/ Contains(data[i].ruiTitle, kw)
                       \/ Contains(data[i].kouTitle, kw)
                       \/ Contains(data[i].gouTitle, kw)

\* C7: without the dataset file no request raises and no connection is opened; a
\* code lookup with a non-blank code answers 404 with resultCd false and a valid
\* search answers 200 with resultCd true and empty data.
C7_AbsentDataset ==
    dbFile = "absent" =>
        \A r \in DOMAIN req :
            /\ opened[r] = 0 /\ conns = {}
            /\ pc[r] \notin {"execute", "close", "raised"}
            /\ rows[r].data = <<>>
            /\ Done(r) =>
                /\ Status(r) # 500
                /\ (IsCodeRequest(r) /\ NonBlankCode(r)) => IsFailure(r, {404})
                /\ ValidSearch(r) => IsSuccess(r) /\ Body(r).data = <<>>

C7_Witness ==
    \E r \in DOMAIN req :
        /\ dbFile = "absent" /\ Done(r) /\ ValidSearch(r)
        /\ queried[r] = 1 /\ opened[r] = 0
        /\ IsSuccess(r) /\ Body(r).data = <<>>

C9_ValidationBeforeQuery ==
    \A r \in DOMAIN req :
        /\ queried[r] <= 1
        /\ opened[r] <= queried[r]
        /\ ValidationFails(r) =>
               /\ queried[r] = 0 /\ opened[r] = 0
               /\ pc[r] \in {"recv", "done"}
               /\ Done(r) => IsFailure(r, {400})
        /\ Status(r) = 400 => queried[r] = 0 /\ ValidationFails(r)

C9_Witness ==
    \E r \in DOMAIN req :
        /\ Done(r) /\ IsNameRequest(r) /\ ValidKeyword(r) /\ ~LimitIsInteger(r)
        /\ dbFile = "ok" /\ EntryTable(r) # {}
        /\ IsFailure(r, {400}) /\ queried[r] = 0

\* C10 as stated: a request that executes a query holds a connection of its own,
\* shared with no other request, and has closed every connection it opened by the
\* time it finishes, also when the execution fails; with all requests finished no
\* connection is open.
C10_ConnectionsReleased ==
    /\ \A r \in DOMAIN req :
           /\ pc[r] \in {"execute", "close"} => ConnOf(r) \in conns
           /\ Done(r) => ~\E c \in conns : c[1] = r
    /\ \A c1, c2 \in conns : c1[1] = c2[1] => c1 = c2
    /\ (\A r \in DOMAIN req : Done(r)) => conns = {}

====
